---- MODULE Spec2Model ----
(***************************************************************************)
(* Model of RSI_trading_aiAgent.py: the cycle loop of main(), the          *)
(* indicator fetch, the advisory call and the exchange order calls.        *)
(* Text is modelled as a sequence of one-character strings so that         *)
(* str.strip() and str.upper() are computed, not assumed.                  *)
(***************************************************************************)
EXTENDS Integers, Sequences, FiniteSets, TLC

(* ------------------------------------------------------------------ *)
(* Bounds                                                             *)
(* ------------------------------------------------------------------ *)
MaxCycles == 2

(* ------------------------------------------------------------------ *)
(* State                                                              *)
(* ------------------------------------------------------------------ *)
VARIABLES
  GROQ_API_KEY,    \* line 19
  BITGET_SECRET,   \* line 17
  pc,              \* where main() is
  cycle,           \* iterations of the while loop started so far
  rsi,             \* main's local rsi
  decision,        \* main's local decision
  exc,             \* the exception that ended the process, or None
  rsi_resp,        \* this cycle: what the indicator provider answered
  advisor_out,     \* this cycle: what the advisory service answered
  advisor_calls,   \* this cycle: number of get_ai_decision calls
  calls,           \* this cycle: close_position / open_position calls
  requests,        \* this cycle: requests handed to requests.request
  responses,       \* this cycle: what the exchange answered to each
  results,         \* this cycle: values bitget_request returned
  sleeps,          \* this cycle: time.sleep durations
  clock_reads,     \* this cycle: what time.time() returned to each request
  prev,            \* the cycle before this one: decision, calls, bodies
  sign_log         \* generate_signature calls made on their own

(* ------------------------------------------------------------------ *)
(* Python values                                                      *)
(* ------------------------------------------------------------------ *)
None == [t |-> "None"]
NaN == [t |-> "nan"]

(* ------------------------------------------------------------------ *)
(* Text: str.upper() and str.strip()                                  *)
(* ------------------------------------------------------------------ *)
LowerChars ==
  <<"a","b","c","d","e","f","g","h","i","j","k","l","m",
    "n","o","p","q","r","s","t","u","v","w","x","y","z">>

UpperChars ==
  <<"A","B","C","D","E","F","G","H","I","J","K","L","M",
    "N","O","P","Q","R","S","T","U","V","W","X","Y","Z">>

Whitespace == {" ", "\n", "\t"}

UpperChar(c) ==
  IF \E i \in 1..Len(LowerChars) : LowerChars[i] = c
  THEN UpperChars[CHOOSE i \in 1..Len(LowerChars) : LowerChars[i] = c]
  ELSE c

upper(s) == [i \in 1..Len(s) |-> UpperChar(s[i])]

RECURSIVE lstrip(_)
lstrip(s) ==
  IF s # <<>> /\ Head(s) \in Whitespace THEN lstrip(Tail(s)) ELSE s

RECURSIVE rstrip(_)
rstrip(s) ==
  IF s # <<>> /\ s[Len(s)] \in Whitespace
  THEN rstrip(SubSeq(s, 1, Len(s) - 1))
  ELSE s

strip(s) == rstrip(lstrip(s))

\* s is a prefix of t
IsPrefix(s, t) == Len(s) <= Len(t) /\ SubSeq(t, 1, Len(s)) = s

BUY == <<"B","U","Y">>
SELL == <<"S","E","L","L">>
NOTHING == <<"N","O","T","H","I","N","G">>

(* ------------------------------------------------------------------ *)
(* Configuration read from the environment at import time             *)
(* ------------------------------------------------------------------ *)
GroqKeys == {"missing", "invalid", "valid"}
BitgetSecrets == {"missing", "set"}

PAPER_TRADING == TRUE
SYMBOL == "ETHUSDT"
ORDER_ENDPOINT == "/api/v2/mix/order/place-order"

(* ------------------------------------------------------------------ *)
(* Exceptions and results                                             *)
(* ------------------------------------------------------------------ *)
Raises(e) == [t |-> "raise", exc |-> e]
IsRaise(x) == x.t = "raise"
Float(n) == [t |-> "float", v |-> n]
Str(s) == [t |-> "str", s |-> s]

(* ------------------------------------------------------------------ *)
(* JSON values and float()                                            *)
(* ------------------------------------------------------------------ *)
Digits == <<"0","1","2","3","4","5","6","7","8","9">>

IsDigit(c) == \E i \in 1..10 : Digits[i] = c

DigitVal(c) == (CHOOSE i \in 1..10 : Digits[i] = c) - 1

RECURSIVE DecimalVal(_)
DecimalVal(s) ==
  IF s = <<>> THEN 0
  ELSE 10 * DecimalVal(SubSeq(s, 1, Len(s) - 1)) + DigitVal(s[Len(s)])

\* float(x) for the JSON values json() can produce
float(x) ==
  CASE x.t = "num" -> Float(x.v)
    [] x.t = "bool" -> Float(IF x.b THEN 1 ELSE 0)
    [] x.t = "str" ->
         LET w == strip(x.s) IN
         IF w # <<>> /\ \A i \in 1..Len(w) : IsDigit(w[i])
         THEN Float(DecimalVal(w))
         ELSE IF upper(w) = <<"N","A","N">> THEN NaN
         ELSE Raises("ValueError")
    [] OTHER -> Raises("TypeError")

JNum(n) == [t |-> "num", v |-> n]
JStr(s) == [t |-> "str", s |-> s]
JBool(b) == [t |-> "bool", b |-> b]
JNull == [t |-> "null"]
JList == [t |-> "list"]
JObject(v) == [t |-> "object", has_value |-> TRUE, value |-> v]
JObjectNoValue == [t |-> "object", has_value |-> FALSE]

\* r.json()
response_json(body) ==
  IF body.json THEN body.doc ELSE Raises("JSONDecodeError")

\* data["value"]
subscript_value(data) ==
  IF data.t = "object"
  THEN IF data.has_value THEN data.value ELSE Raises("KeyError")
  ELSE Raises("TypeError")

(* ------------------------------------------------------------------ *)
(* get_rsi_value                                                      *)
(* ------------------------------------------------------------------ *)
\* the body of the try block
get_rsi_value_try(resp) ==
  IF resp.transport = "error" THEN Raises("ConnectionError")
  ELSE LET data == response_json(resp.body) IN
       IF IsRaise(data) THEN data
       ELSE LET v == subscript_value(data) IN
            IF IsRaise(v) THEN v ELSE float(v)

\* variant of get_rsi_value: only the transport and JSON errors are caught
get_rsi_value_narrow_except(resp) ==
  LET r == get_rsi_value_try(resp) IN
  IF IsRaise(r) /\ r.exc \in {"ConnectionError", "JSONDecodeError"}
  THEN None ELSE r

get_rsi_value(resp) ==
  LET r == get_rsi_value_try(resp) IN
  IF IsRaise(r) THEN None ELSE r

(* ------------------------------------------------------------------ *)
(* get_ai_decision                                                    *)
(* ------------------------------------------------------------------ *)
\* Groq(api_key=GROQ_API_KEY): the client refuses a missing key
Groq(api_key) ==
  IF api_key = "missing" THEN Raises("GroqError") ELSE [t |-> "client"]

\* variant of get_ai_decision_try: upper() without strip()
get_ai_decision_try_unstripped(out) ==
  IF out.t = "exc" THEN Raises(out.exc)
  ELSE IF out.choices = 0 THEN Raises("IndexError")
  ELSE IF out.content.t = "None" THEN Raises("AttributeError")
  ELSE Str(upper(out.content.s))

\* the body of the try block
get_ai_decision_try(out) ==
  IF out.t = "exc" THEN Raises(out.exc)
  ELSE IF out.choices = 0 THEN Raises("IndexError")
  ELSE IF out.content.t = "None" THEN Raises("AttributeError")
  ELSE Str(upper(strip(out.content.s)))

get_ai_decision(api_key, out) ==
  LET groq_client == Groq(api_key) IN
  IF IsRaise(groq_client) THEN groq_client
  ELSE LET r == get_ai_decision_try(out) IN
       IF IsRaise(r) THEN Str(NOTHING) ELSE r

(* ------------------------------------------------------------------ *)
(* generate_signature, bitget_request                                 *)
(* ------------------------------------------------------------------ *)
POST == <<"P","O","S","T">>

\* the keys of an order payload, in the order the dict literal inserts them
\* (lines 70-78, 85-93), which is the order json.dumps writes them in
PayloadKeys ==
  <<"symbol", "productType", "marginMode", "marginCoin", "size", "side",
    "tradeSide", "orderType", "force">>

DictKeys(obj) == SelectSeq(PayloadKeys, LAMBDA k : k \in DOMAIN obj)

\* the text of one "key"<key_sep>"value" item, as a sequence of pieces
json_item(obj, k, key_sep) ==
  <<"\"", k, "\"", key_sep, "\"", obj[k], "\"">>

RECURSIVE json_items(_, _, _, _)
json_items(obj, keys, item_sep, key_sep) ==
  IF keys = <<>> THEN <<>>
  ELSE IF Len(keys) = 1 THEN json_item(obj, keys[1], key_sep)
  ELSE json_item(obj, keys[1], key_sep) \o <<item_sep>>
       \o json_items(obj, Tail(keys), item_sep, key_sep)

\* json.dumps of a dict of strings with the given separators
json_encode(obj, item_sep, key_sep) ==
  <<"{">> \o json_items(obj, DictKeys(obj), item_sep, key_sep) \o <<"}">>

\* json.dumps(obj, separators=(",", ":")) and json.dumps(obj), whose
\* default separators are (", ", ": ")
json_dumps_compact(obj) == json_encode(obj, ",", ":")
json_dumps(obj) == json_encode(obj, ", ", ": ")

\* variant of generate_signature: the method is signed as given
generate_signature_method_as_given(timestamp, method, request_path, body, secret_key) ==
  LET body_str == IF DOMAIN body = {} THEN <<>> ELSE json_dumps_compact(body)
      pre_hash == <<timestamp, method, request_path, body_str>>
  IN IF secret_key = "missing" THEN Raises("AttributeError")
     ELSE [t |-> "sig", key |-> secret_key, msg |-> pre_hash]

\* HMAC-SHA256 then base64, kept symbolic: the key and the signed message
generate_signature(timestamp, method, request_path, body, secret_key) ==
  LET body_str == IF DOMAIN body = {} THEN <<>> ELSE json_dumps_compact(body)
      pre_hash == <<timestamp, upper(method), request_path, body_str>>
  IN IF secret_key = "missing" THEN Raises("AttributeError")
     ELSE [t |-> "sig", key |-> secret_key, msg |-> pre_hash]

\* the dict passed as body, after generate_signature returns: lines 37-40
\* only read it
body_after_signing(body) == body

\* variant of bitget_timestamp: the timestamp of the request before is
\* kept and used again
bitget_timestamp_reused(clock) ==
  IF requests # <<>> THEN requests[Len(requests)].timestamp ELSE clock

\* line 44: timestamp = str(int(time.time() * 1000)), clock being what
\* time.time() returns to this call
bitget_timestamp(clock) == clock

\* what requests.request is handed (lines 44-57)
bitget_http_request(method, endpoint, payload, secret_key, clock) ==
  LET timestamp == bitget_timestamp(clock) IN
  [method |-> method,
   url |-> endpoint,
   sign |-> generate_signature(timestamp, method, endpoint, payload, secret_key),
   timestamp |-> timestamp,
   paptrading |-> IF PAPER_TRADING THEN "1" ELSE "0",
   data |-> json_dumps(payload)]

\* variant of bitget_parse: response.json() outside any try
bitget_parse_unguarded(response) == response_json(response.body)

\* the try/except around response.json() (lines 58-61)
bitget_parse(response) ==
  LET parsed == response_json(response.body) IN
  IF IsRaise(parsed) THEN [t |-> "dict", error |-> response.body.text]
  ELSE parsed

bitget_request(method, endpoint, payload, secret_key, clock, response) ==
  LET timestamp == bitget_timestamp(clock)
      signature ==
        generate_signature(timestamp, method, endpoint, payload, secret_key)
  IN IF IsRaise(signature) THEN signature
     ELSE IF response.transport = "error" THEN Raises("ConnectionError")
     ELSE bitget_parse(response)

(* ------------------------------------------------------------------ *)
(* close_position, open_position                                      *)
(* ------------------------------------------------------------------ *)
\* variant of close_payload: the side is not turned into its opposite
close_payload_same_side(side) ==
  [symbol |-> SYMBOL, productType |-> "USDT-FUTURES",
   marginMode |-> "isolated", marginCoin |-> "USDT", size |-> "1000",
   side |-> side,
   tradeSide |-> "close", orderType |-> "market", force |-> "gtc"]

close_payload(side) ==
  [symbol |-> SYMBOL, productType |-> "USDT-FUTURES",
   marginMode |-> "isolated", marginCoin |-> "USDT", size |-> "1000",
   side |-> IF side = "sell" THEN "buy" ELSE "sell",
   tradeSide |-> "close", orderType |-> "market", force |-> "gtc"]

open_payload(side) ==
  [symbol |-> SYMBOL, productType |-> "USDT-FUTURES",
   marginMode |-> "isolated", marginCoin |-> "USDT", size |-> "0.05",
   side |-> side,
   tradeSide |-> "open", orderType |-> "market", force |-> "gtc"]

close_position(side, secret_key, clock, response) ==
  bitget_request(POST, ORDER_ENDPOINT, close_payload(side),
                 secret_key, clock, response)

open_position(side, secret_key, clock, response) ==
  bitget_request(POST, ORDER_ENDPOINT, open_payload(side),
                 secret_key, clock, response)

(* ------------------------------------------------------------------ *)
(* What the outside world can answer                                  *)
(* ------------------------------------------------------------------ *)
MaxClock == 2
Timestamps == 1..MaxClock

NotJson(text) == [json |-> FALSE, text |-> text]
Json(doc, text) == [json |-> TRUE, doc |-> doc, text |-> text]
Http(status, body) == [transport |-> "ok", status |-> status, body |-> body]
TransportError == [transport |-> "error"]

RsiBodies ==
  { NotJson("<html>"),
    Json(JObject(JNum(25)), "{value:25}"),
    Json(JObject(JNum(75)), "{value:75}"),
    Json(JObject(JStr(<<"4","2">>)), "{value:'42'}"),
    Json(JObject(JStr(<<"a","b","c">>)), "{value:'abc'}"),
    Json(JObject(JStr(<<"n","a","n">>)), "{value:'nan'}"),
    Json(JObject(JBool(TRUE)), "{value:true}"),
    Json(JObject(JNull), "{value:null}"),
    Json(JObject(JList), "{value:[]}"),
    Json(JObjectNoValue, "{error:'rate limit'}"),
    Json(JList, "[]") }

RsiResponses ==
  {TransportError} \cup {Http(st, b) : st \in {200, 500}, b \in RsiBodies}

Replies ==
  { <<"B","U","Y">>,
    <<"b","u","y"," ">>,
    <<" ","S","e","l","l","\n">>,
    <<"S","E","L","L">>,
    <<"N","O","T","H","I","N","G">>,
    <<>>,
    <<"S","E","L","L"," ","p","l","e","a","s","e",","," ","I","'","m",
      " ","c","o","n","f","i","d","e","n","t">>,
    <<"H","O","L","D">>,
    <<"B"," ","U","Y">> }

AdvisorFailures(api_key) ==
  { [t |-> "exc", exc |-> "APIConnectionError"] }
  \cup (IF api_key = "valid" THEN {}
        ELSE { [t |-> "exc", exc |-> "AuthenticationError"] })

AdvisorReplies ==
  { [t |-> "resp", choices |-> 0, content |-> None],
    [t |-> "resp", choices |-> 1, content |-> None] }
  \cup { [t |-> "resp", choices |-> 1, content |-> Str(r)] : r \in Replies }

AdvisorOutcomes(api_key) ==
  AdvisorFailures(api_key)
  \cup (IF api_key = "valid" THEN AdvisorReplies ELSE {})

ExchangeResponses ==
  { TransportError,
    Http(200, Json([t |-> "object", code |-> "00000"], "{code:00000}")),
    Http(400, Json([t |-> "object", code |-> "22002"], "{code:22002}")),
    Http(400, Json([t |-> "object", code |-> "40009"], "{code:40009}")),
    Http(200, NotJson("")),
    Http(502, NotJson("<html>Bad Gateway</html>")) }

(* ------------------------------------------------------------------ *)
(* Initial state                                                      *)
(* ------------------------------------------------------------------ *)
vars ==
  <<GROQ_API_KEY, BITGET_SECRET, pc, cycle, rsi, decision, exc, rsi_resp,
    advisor_out, advisor_calls, calls, requests, responses, results, sleeps,
    clock_reads, prev, sign_log>>

config == <<GROQ_API_KEY, BITGET_SECRET>>

Unset == [t |-> "unset"]

Init ==
  /\ GROQ_API_KEY \in GroqKeys
  /\ BITGET_SECRET \in BitgetSecrets
  /\ pc = "loop"
  /\ cycle = 0
  /\ rsi = Unset
  /\ decision = Unset
  /\ exc = None
  /\ rsi_resp = Unset
  /\ advisor_out = Unset
  /\ advisor_calls = 0
  /\ calls = <<>>
  /\ requests = <<>>
  /\ responses = <<>>
  /\ results = <<>>
  /\ sleeps = <<>>
  /\ clock_reads = <<>>
  /\ prev = Unset
  /\ sign_log = {}

(* ------------------------------------------------------------------ *)
(* main                                                               *)
(* ------------------------------------------------------------------ *)
\* variant of SKIP_SLEEP: a longer wait after a failed fetch
SKIP_SLEEP_backoff == 2 * 300

SKIP_SLEEP == 300
CYCLE_SLEEP == 300

\* variant of rsi_is_none: the None test left out
rsi_is_none_untested(r) == FALSE

\* line 145: if rsi is None
rsi_is_none(r) == r = None

\* variant of branch: a prefix test (startswith) instead of equality
branch_startswith(d) ==
  IF IsPrefix(BUY, d.s) THEN "buy"
  ELSE IF IsPrefix(SELL, d.s) THEN "sell" ELSE "nothing"

\* variant of branch: a decision equal to the last cycle's is not acted on
branch_unless_repeated(d) ==
  IF prev # Unset /\ prev.decision = d THEN "nothing"
  ELSE IF d.s = BUY THEN "buy" ELSE IF d.s = SELL THEN "sell" ELSE "nothing"

\* lines 153, 156, 159: the if / elif / else on decision
branch(d) ==
  IF d.s = BUY THEN "buy" ELSE IF d.s = SELL THEN "sell" ELSE "nothing"

\* what a cycle decided and what it sent, as the next cycle finds it
cycle_summary ==
  [t |-> "cycle", decision |-> decision, calls |-> calls,
   bodies |-> [i \in 1..Len(requests) |-> requests[i].data]]

\* variant of main_loop: the next cycle is started by a timer, while the
\* sleep of the cycle before may still be going on
main_loop_on_timer ==
  /\ pc \in {"loop", "sleeping"}
  /\ cycle < MaxCycles
  /\ pc' = "fetch"
  /\ cycle' = cycle + 1
  /\ rsi' = Unset
  /\ decision' = Unset
  /\ rsi_resp' = Unset
  /\ advisor_out' = Unset
  /\ advisor_calls' = 0
  /\ calls' = <<>>
  /\ requests' = <<>>
  /\ responses' = <<>>
  /\ results' = <<>>
  /\ sleeps' = <<>>
  /\ clock_reads' = <<>>
  /\ prev' = IF cycle = 0 THEN Unset ELSE cycle_summary
  /\ UNCHANGED <<config, exc, sign_log>>

\* lines 140-142: the head of the while loop
main_loop ==
  /\ pc = "loop"
  /\ cycle < MaxCycles
  /\ pc' = "fetch"
  /\ cycle' = cycle + 1
  /\ rsi' = Unset
  /\ decision' = Unset
  /\ rsi_resp' = Unset
  /\ advisor_out' = Unset
  /\ advisor_calls' = 0
  /\ calls' = <<>>
  /\ requests' = <<>>
  /\ responses' = <<>>
  /\ results' = <<>>
  /\ sleeps' = <<>>
  /\ clock_reads' = <<>>
  /\ prev' = IF cycle = 0 THEN Unset ELSE cycle_summary
  /\ UNCHANGED <<config, exc, sign_log>>

\* lines 144-147: rsi = get_rsi_value(), and the skip path up to its sleep
main_get_rsi_value ==
  /\ pc = "fetch"
  /\ \E resp \in RsiResponses :
       LET r == get_rsi_value(resp) IN
       /\ rsi_resp' = resp
       /\ IF IsRaise(r)
          THEN /\ pc' = "crashed"
               /\ exc' = r
               /\ UNCHANGED <<rsi, sleeps>>
          ELSE /\ rsi' = r
               /\ exc' = exc
               /\ IF rsi_is_none(r)
                  THEN pc' = "sleeping" /\ sleeps' = Append(sleeps, SKIP_SLEEP)
                  ELSE pc' = "decide" /\ sleeps' = sleeps
  /\ UNCHANGED <<config, cycle, decision, advisor_out, advisor_calls, calls,
                 requests, responses, results, clock_reads, prev, sign_log>>

\* lines 152-153, 156, 159-163: decision = get_ai_decision(rsi), the
\* branch on it, and the NOTHING path up to its sleep
main_get_ai_decision ==
  /\ pc = "decide"
  /\ \E out \in AdvisorOutcomes(GROQ_API_KEY) :
       LET d == get_ai_decision(GROQ_API_KEY, out) IN
       /\ advisor_out' = out
       /\ advisor_calls' = advisor_calls + 1
       /\ IF IsRaise(d)
          THEN /\ pc' = "crashed"
               /\ exc' = d
               /\ UNCHANGED <<decision, sleeps>>
          ELSE /\ decision' = d
               /\ exc' = exc
               /\ IF branch(d) = "nothing"
                  THEN pc' = "sleeping" /\ sleeps' = Append(sleeps, CYCLE_SLEEP)
                  ELSE pc' = "close" /\ sleeps' = sleeps
  /\ UNCHANGED <<config, cycle, rsi, rsi_resp, calls, requests, responses,
                 results, clock_reads, prev, sign_log>>

\* variant of after_close: the open call is made only if the close
\* request was accepted
after_close_if_accepted(result) ==
  IF result.t = "object" /\ result.code = "00000" THEN "open" ELSE "sleeping"

\* lines 154-155, 157-158: close_position's result is dropped and the
\* open_position statement comes next
after_close(result) == "open"

\* one bitget_request made on behalf of fn(side): what it sends, what it
\* returns or raises
order_call(fn, side, payload, clock, response, r, next_pc, slept) ==
  /\ calls' = Append(calls, [fn |-> fn, side |-> side])
  /\ clock_reads' = Append(clock_reads, clock)
  /\ LET req == bitget_http_request(POST, ORDER_ENDPOINT, payload,
                                    BITGET_SECRET, clock)
     IN IF IsRaise(req.sign)
        THEN UNCHANGED <<requests, responses>>
        ELSE /\ requests' = Append(requests, req)
             /\ responses' = Append(responses, response)
  /\ IF IsRaise(r)
     THEN /\ pc' = "crashed"
          /\ exc' = r
          /\ UNCHANGED <<results, sleeps>>
     ELSE /\ pc' = next_pc
          /\ exc' = exc
          /\ results' = Append(results, r)
          /\ sleeps' = sleeps \o slept

\* lines 154, 157: close_position(side)
main_close_position ==
  /\ pc = "close"
  /\ \E clock \in Timestamps, response \in ExchangeResponses :
       LET side == branch(decision) IN
       order_call("close_position", side, close_payload(side), clock,
                  response,
                  close_position(side, BITGET_SECRET, clock, response),
                  after_close(close_position(side, BITGET_SECRET, clock,
                                             response)),
                  <<>>)
  /\ UNCHANGED <<config, cycle, rsi, decision, rsi_resp, advisor_out,
                 advisor_calls, prev, sign_log>>

\* lines 155, 158, 162-163: open_position(side), then the cycle's sleep
main_open_position ==
  /\ pc = "open"
  /\ \E clock \in Timestamps, response \in ExchangeResponses :
       LET side == branch(decision) IN
       order_call("open_position", side, open_payload(side), clock,
                  response,
                  open_position(side, BITGET_SECRET, clock, response),
                  "sleeping", <<CYCLE_SLEEP>>)
  /\ UNCHANGED <<config, cycle, rsi, decision, rsi_resp, advisor_out,
                 advisor_calls, prev, sign_log>>

\* lines 148, 163: time.sleep returns and the loop goes round
main_wake ==
  /\ pc = "sleeping"
  /\ pc' = "loop"
  /\ UNCHANGED <<config, cycle, rsi, decision, exc, rsi_resp, advisor_out,
                 advisor_calls, calls, requests, responses, results, sleeps,
                 clock_reads, prev, sign_log>>

Next ==
  \/ main_loop
  \/ main_get_rsi_value
  \/ main_get_ai_decision
  \/ main_close_position
  \/ main_open_position
  \/ main_wake

Spec == Init /\ [][Next]_vars

(* ------------------------------------------------------------------ *)
(* generate_signature called on its own                               *)
(* ------------------------------------------------------------------ *)
MaxSignCalls == 2

SignMethods ==
  { <<"P","O","S","T">>, <<"p","o","s","t">>, <<"P","o","s","t">>,
    <<"G","E","T">> }

NoBody == [k \in {} |-> ""]

SignBodies == {close_payload("buy"), open_payload("sell"), NoBody}

SignSecrets == {"missing", "set", "other"}

SignInit ==
  /\ GROQ_API_KEY = "valid"
  /\ BITGET_SECRET = "set"
  /\ pc = "sign"
  /\ cycle = 0
  /\ rsi = Unset
  /\ decision = Unset
  /\ exc = None
  /\ rsi_resp = Unset
  /\ advisor_out = Unset
  /\ advisor_calls = 0
  /\ calls = <<>>
  /\ requests = <<>>
  /\ responses = <<>>
  /\ results = <<>>
  /\ sleeps = <<>>
  /\ clock_reads = <<>>
  /\ prev = Unset
  /\ sign_log = {}

\* one call generate_signature(timestamp, method, request_path, body,
\* secret_key), with what it returned and what body is afterwards
sign_call ==
  /\ pc = "sign"
  /\ Cardinality(sign_log) < MaxSignCalls
  /\ \E timestamp \in Timestamps, method \in SignMethods,
        body \in SignBodies, secret_key \in SignSecrets :
       sign_log' = sign_log \cup
         { [timestamp |-> timestamp, method |-> method,
            request_path |-> ORDER_ENDPOINT, body |-> body,
            secret_key |-> secret_key,
            body_after |-> body_after_signing(body),
            signature |-> generate_signature(timestamp, method,
                            ORDER_ENDPOINT, body, secret_key)] }
  /\ UNCHANGED <<config, pc, cycle, rsi, decision, exc, rsi_resp,
                 advisor_out, advisor_calls, calls, requests, responses,
                 results, sleeps, clock_reads, prev>>

SignNext == sign_call

SignSpec == SignInit /\ [][SignNext]_vars

(* ------------------------------------------------------------------ *)
(* Vocabulary of the properties                                       *)
(* ------------------------------------------------------------------ *)
Fetched == "transport" \in DOMAIN rsi_resp
Advised == advisor_calls > 0
Decided == decision.t = "str"
Crashed == pc = "crashed"
CycleOver == pc \in {"sleeping", "loop", "crashed"}

CloseCall(side) == [fn |-> "close_position", side |-> side]
OpenCall(side) == [fn |-> "open_position", side |-> side]

\* the exchange accepted the order
Accepted(response) ==
  /\ response.transport = "ok"
  /\ response.body.json
  /\ response.body.doc.code = "00000"

Malformed(response) ==
  response.transport = "ok" /\ ~response.body.json

(* ------------------------------------------------------------------ *)
(* C1                                                                 *)
(* ------------------------------------------------------------------ *)
\* C1: in every cycle in which the decision is BUY (SELL), exactly one
\* close_position("buy") ("sell") call is made, followed by exactly one
\* open_position of the same side, and no other order call is made: while
\* the cycle runs the calls are a prefix of <<close, open>>, and once the
\* cycle is over they are exactly <<close, open>>.
C1_CloseThenOpenEveryTradeCycle ==
  (Decided /\ decision.s \in {BUY, SELL}) =>
    LET side == IF decision.s = BUY THEN "buy" ELSE "sell"
        want == <<CloseCall(side), OpenCall(side)>>
    IN /\ IsPrefix(calls, want)
       /\ CycleOver => calls = want

(* ------------------------------------------------------------------ *)
(* C2                                                                 *)
(* ------------------------------------------------------------------ *)
\* C2: in a cycle in which get_rsi_value() returned None the scheduler is
\* sleeping (or back at the loop head after that sleep) and the cycle has
\* made no get_ai_decision call, no close_position or open_position call,
\* and handed no request to the exchange.
C2_UnavailableSkipsCycle ==
  (Fetched /\ rsi = None) =>
    /\ pc \in {"sleeping", "loop"}
    /\ advisor_calls = 0
    /\ decision = Unset
    /\ calls = <<>>
    /\ requests = <<>>

C2_Witness ==
  /\ Fetched
  /\ rsi_resp.transport = "error"
  /\ rsi = None
  /\ pc = "sleeping"

(* ------------------------------------------------------------------ *)
(* C3                                                                 *)
(* ------------------------------------------------------------------ *)
RepliedText == Advised /\ advisor_out.t = "resp" /\ advisor_out.choices > 0
               /\ advisor_out.content.t = "str"

\* C3: in a cycle in which the advisor's reply, trimmed and uppercased, is
\* neither exactly BUY nor exactly SELL, no close_position or open_position
\* call is made, no request reaches the exchange, and the scheduler is
\* sleeping (or back at the loop head after that sleep).
C3_OtherRepliesDoNothing ==
  (RepliedText /\ upper(strip(advisor_out.content.s)) \notin {BUY, SELL}) =>
    /\ pc \in {"sleeping", "loop"}
    /\ calls = <<>>
    /\ requests = <<>>

C3_Witness ==
  /\ RepliedText
  /\ Len(advisor_out.content.s) > Len(SELL)
  /\ SubSeq(advisor_out.content.s, 1, Len(SELL)) = SELL
  /\ pc = "sleeping"
  /\ calls = <<>>

(* ------------------------------------------------------------------ *)
(* C4                                                                 *)
(* ------------------------------------------------------------------ *)
\* C4 as claimed: whatever get_ai_decision returns is one of BUY, SELL,
\* NOTHING.
C4_ReturnsDecisionEnum ==
  Decided => decision.s \in {BUY, SELL, NOTHING}

\* replies and the text get_ai_decision is to return for each
ExpectedDecision ==
  { << <<"B","U","Y">>, BUY >>,
    << <<"b","u","y"," ">>, BUY >>,
    << <<" ","S","e","l","l","\n">>, SELL >>,
    << <<"S","E","L","L">>, SELL >>,
    << <<"N","O","T","H","I","N","G">>, NOTHING >>,
    << <<>>, <<>> >>,
    << <<"S","E","L","L"," ","p","l","e","a","s","e",","," ","I","'","m",
         " ","c","o","n","f","i","d","e","n","t">>,
       <<"S","E","L","L"," ","P","L","E","A","S","E",","," ","I","'","M",
         " ","C","O","N","F","I","D","E","N","T">> >>,
    << <<"H","O","L","D">>, <<"H","O","L","D">> >>,
    << <<"B"," ","U","Y">>, <<"B"," ","U","Y">> >> }

\* C4 as amended: when get_ai_decision returns, it returns NOTHING after a
\* caught failure (an exception of the call, no choices, no content) and
\* otherwise the reply itself, trimmed and uppercased; that text is BUY or
\* SELL exactly for the replies that are that word up to case and
\* surrounding whitespace, and any other text is left to main's else arm.
C4_ReturnsTrimmedUpperReply ==
  Decided =>
    /\ ~RepliedText => decision.s = NOTHING
    /\ RepliedText =>
         /\ <<advisor_out.content.s, decision.s>> \in ExpectedDecision
         /\ (decision.s \notin {BUY, SELL}) => calls = <<>>

C4_Witness ==
  /\ Decided
  /\ RepliedText
  /\ decision.s \notin {BUY, SELL, NOTHING}
  /\ Len(decision.s) > Len(NOTHING)

(* ------------------------------------------------------------------ *)
(* C5                                                                 *)
(* ------------------------------------------------------------------ *)
\* C5: once get_ai_decision has been called, the process has not been
\* ended by it; and when the advisory step failed (no usable API key, an
\* exception of the call, no choices, no content) the decision is NOTHING
\* and no order call follows in that cycle.
C5_AdvisoryFailureYieldsNothing ==
  Advised =>
    /\ ~(Crashed /\ calls = <<>>)
    /\ (GROQ_API_KEY # "valid" \/ ~RepliedText) =>
         /\ decision = Str(NOTHING)
         /\ calls = <<>>

(* ------------------------------------------------------------------ *)
(* C6                                                                 *)
(* ------------------------------------------------------------------ *)
\* C6: for every response whose HTTP status is not 200, whatever its body,
\* get_rsi_value returns None.
C6_Non200IsUnavailable ==
  (Fetched /\ rsi_resp.transport = "ok" /\ rsi_resp.status # 200) =>
    rsi = None

(* ------------------------------------------------------------------ *)
(* C7                                                                 *)
(* ------------------------------------------------------------------ *)
HasValue ==
  /\ Fetched
  /\ rsi_resp.transport = "ok"
  /\ rsi_resp.body.json
  /\ rsi_resp.body.doc.t = "object"
  /\ rsi_resp.body.doc.has_value

\* the answers the claim lists, except a "value" that is present
NoValueAtAll == Fetched /\ ~HasValue

SkippedCycle == rsi = None /\ pc \in {"sleeping", "loop"} /\ exc = None

\* a JSON number, or a string that spells one in digits
Numeric(v) ==
  \/ v.t = "num"
  \/ v.t = "str" /\ v.s # <<>> /\ \A i \in 1..Len(v.s) : IsDigit(v.s[i])

\* C7 as claimed: on a transport error, a body that is not JSON, a JSON
\* body without "value", or a "value" that is not a JSON number,
\* get_rsi_value returns None and the scheduler goes on to its sleep.
C7_EveryBadAnswerIsUnavailable ==
  (NoValueAtAll \/ (HasValue /\ ~Numeric(rsi_resp.body.doc.value))) =>
    SkippedCycle

\* C7 as amended: get_rsi_value never raises; on a transport error, a body
\* that is not JSON, a JSON body without "value", or a "value" float()
\* rejects (null, a list, a string that is no number) it returns None and
\* the scheduler goes on to its sleep; a "value" that is no JSON number
\* but that float() accepts is returned as a float: true as 1.0, "42" as
\* 42.0, "nan" as NaN.
C7_NeverRaisesAndFloatDecides ==
  Fetched =>
    /\ ~Crashed \/ Advised
    /\ rsi # Unset
    /\ NoValueAtAll => SkippedCycle
    /\ HasValue =>
         LET v == rsi_resp.body.doc.value IN
         /\ v.t \in {"null", "list"} => SkippedCycle
         /\ v.t = "num" => rsi = Float(v.v)
         /\ v.t = "bool" => rsi = Float(1)
         /\ v.t = "str" =>
              /\ v.s = <<"a","b","c">> => SkippedCycle
              /\ v.s = <<"4","2">> => rsi = Float(42)
              /\ v.s = <<"n","a","n">> => rsi = NaN

C7_Witness ==
  /\ HasValue
  /\ rsi_resp.body.doc.value.t = "str"
  /\ SkippedCycle
  /\ pc = "loop"

(* ------------------------------------------------------------------ *)
(* C8                                                                 *)
(* ------------------------------------------------------------------ *)
\* C8: for every exchange response whose body is malformed, empty or not
\* JSON, bitget_request has returned (not raised) the value
\* {"error": <the raw response text>}, and the process has not stopped.
C8_MalformedBodyReturnsFailure ==
  \A i \in 1..Len(responses) :
    Malformed(responses[i]) =>
      /\ Len(results) >= i
      /\ results[i] = [t |-> "dict", error |-> responses[i].body.text]
      /\ i = Len(responses) => (~Crashed /\ exc = None)

C8_Witness ==
  /\ Len(responses) = 2
  /\ Malformed(responses[1])
  /\ responses[1].body.text = ""
  /\ Malformed(responses[2])
  /\ pc = "loop"

(* ------------------------------------------------------------------ *)
(* C9                                                                 *)
(* ------------------------------------------------------------------ *)
\* C9: a cycle sleeps exactly once, for 300 seconds, on each of its paths:
\* before the sleep no sleep has been made in the cycle, and in the sleep
\* and after it (until the next cycle starts) the cycle's sleeps are
\* exactly <<300>>; the loop head is only reached through that sleep.
C9_OneFixedSleepPerCycle ==
  /\ pc \in {"fetch", "decide", "close", "open"} => sleeps = <<>>
  /\ pc = "sleeping" => sleeps = <<300>>
  /\ (pc = "loop" /\ cycle > 0) => sleeps = <<300>>

C9_Witness ==
  /\ pc = "loop"
  /\ cycle = MaxCycles
  /\ rsi = None
  /\ sleeps = <<300>>

(* ------------------------------------------------------------------ *)
(* C10                                                                *)
(* ------------------------------------------------------------------ *)
\* the last request handed to the exchange failed: the HTTP submission
\* itself failed, the body could not be parsed, or the exchange rejected
\* the order
LastSubmissionFailed ==
  /\ responses # <<>>
  /\ ~Accepted(responses[Len(responses)])

\* C10: after an order submission fails, the order is not retried in that
\* cycle (each of close_position and open_position is called at most
\* once, each call sends at most one request) and the scheduler goes on:
\* to the open call after a failed close, to the sleep after a failed
\* open.
C10_FailedOrderIsNotRetriedAndCycleGoesOn ==
  LastSubmissionFailed =>
    /\ Len(calls) <= 2
    /\ Len(requests) = Len(calls)
    /\ \A i, j \in 1..Len(calls) : calls[i].fn = calls[j].fn => i = j
    /\ Len(responses) = 1 => pc = "open"
    /\ Len(responses) = 2 => pc \in {"sleeping", "loop"}

(* ------------------------------------------------------------------ *)
(* C11                                                                *)
(* ------------------------------------------------------------------ *)
Misconfigured == GROQ_API_KEY # "valid" \/ BITGET_SECRET = "missing"

\* C11: under a credential misconfiguration the loop never stops itself:
\* main() is never ended by an exception, every cycle goes through its
\* sleep back to the loop head.
C11_MisconfiguredLoopNeverStops ==
  Misconfigured => ~Crashed

(* ------------------------------------------------------------------ *)
(* C12                                                                *)
(* ------------------------------------------------------------------ *)
\* the value a request body gives for key k, read off the text sent
FieldOf(data, k) ==
  data[(CHOOSE i \in 2..(Len(data) - 5) :
          data[i] = k /\ data[i - 1] = "\"" /\ data[i + 2] = ": ") + 4]

HasField(data, k) ==
  \E i \in 2..(Len(data) - 5) :
    data[i] = k /\ data[i - 1] = "\"" /\ data[i + 2] = ": "

FixedOrderFields(data) ==
  /\ \A k \in {"symbol", "productType", "marginMode", "marginCoin", "size",
               "side", "tradeSide", "orderType", "force"} : HasField(data, k)
  /\ Len(data) = 2 + 9 * 7 + 8
  /\ FieldOf(data, "symbol") = "ETHUSDT"
  /\ FieldOf(data, "productType") = "USDT-FUTURES"
  /\ FieldOf(data, "marginMode") = "isolated"
  /\ FieldOf(data, "marginCoin") = "USDT"
  /\ FieldOf(data, "orderType") = "market"
  /\ FieldOf(data, "force") = "gtc"

\* C12: in a BUY cycle the first request sent is side=sell, tradeSide=close,
\* size "1000" and the second is side=buy, tradeSide=open, size "0.05"; in
\* a SELL cycle the sides are buy then sell; every request is a POST to the
\* order endpoint with symbol, productType, marginMode, marginCoin,
\* orderType and force at their fixed values, whatever the cycle before
\* did.
C12_FixedOrderRequests ==
  (Decided /\ decision.s \in {BUY, SELL}) =>
    LET opening == IF decision.s = BUY THEN "buy" ELSE "sell"
        closing == IF decision.s = BUY THEN "sell" ELSE "buy"
    IN /\ Len(requests) <= 2
       /\ \A i \in 1..Len(requests) :
            /\ requests[i].method = POST
            /\ requests[i].url = "/api/v2/mix/order/place-order"
            /\ FixedOrderFields(requests[i].data)
       /\ Len(requests) >= 1 =>
            /\ FieldOf(requests[1].data, "side") = closing
            /\ FieldOf(requests[1].data, "tradeSide") = "close"
            /\ FieldOf(requests[1].data, "size") = "1000"
       /\ Len(requests) = 2 =>
            /\ FieldOf(requests[2].data, "side") = opening
            /\ FieldOf(requests[2].data, "tradeSide") = "open"
            /\ FieldOf(requests[2].data, "size") = "0.05"

C12_Witness ==
  /\ Decided
  /\ decision.s = BUY
  /\ Len(requests) = 2
  /\ prev # Unset
  /\ prev.decision = Str(SELL)
  /\ Len(prev.bodies) = 2

(* ------------------------------------------------------------------ *)
(* C13                                                                *)
(* ------------------------------------------------------------------ *)
\* methods that are the same word up to the case of their letters
SameMethodUpToCase(m, n) ==
  \/ m = n
  \/ {m, n} \subseteq { <<"P","O","S","T">>, <<"p","o","s","t">>,
                        <<"P","o","s","t">> }

CloseReturnedFailure ==
  /\ Len(results) >= 1
  /\ Len(responses) >= 1
  /\ ~Accepted(responses[1])

\* C14: when the close request returned an exchange error, a rejection or
\* an unparseable body, the open call is the next thing main() does and it
\* is made exactly once in that cycle, whatever the cycle before did.
C14_OpenFollowsCloseWhateverItsResult ==
  (Decided /\ CloseReturnedFailure) =>
    LET side == IF decision.s = BUY THEN "buy" ELSE "sell" IN
    \/ pc = "open" /\ calls = <<CloseCall(side)>>
    \/ /\ pc \in {"sleeping", "loop", "crashed"}
       /\ calls = <<CloseCall(side), OpenCall(side)>>

C14_Witness ==
  /\ CloseReturnedFailure
  /\ responses[1].body.json
  /\ responses[1].body.doc.code = "22002"
  /\ Len(calls) = 2
  /\ calls[2].fn = "open_position"
  /\ pc = "sleeping"

(* ------------------------------------------------------------------ *)
(* C15                                                                *)
(* ------------------------------------------------------------------ *)
\* the calls a decision stands for
CallsFor(d) ==
  IF d = Str(BUY) THEN <<CloseCall("buy"), OpenCall("buy")>>
  ELSE IF d = Str(SELL) THEN <<CloseCall("sell"), OpenCall("sell")>>
  ELSE <<>>

CycleDone == pc \in {"sleeping", "loop"} /\ cycle > 0

\* C15: the calls of a cycle are fixed by that cycle's decision alone:
\* while it runs they are a prefix of the calls its decision stands for,
\* and a cycle that has run to its sleep with the same decision as the
\* cycle before it has issued the same calls and sent the same bodies; in
\* particular a BUY after a BUY issues close_position("buy") and
\* open_position("buy") again.
C15_CallsDependOnThisCycleOnly ==
  /\ IsPrefix(calls, CallsFor(decision))
  /\ (CycleDone /\ prev # Unset /\ prev.decision = decision) =>
       /\ calls = prev.calls
       /\ calls = CallsFor(decision)
       /\ [i \in 1..Len(requests) |-> requests[i].data] = prev.bodies

C15_Witness ==
  /\ CycleDone
  /\ prev # Unset
  /\ prev.decision = Str(BUY)
  /\ decision = Str(BUY)
  /\ calls = <<CloseCall("buy"), OpenCall("buy")>>
  /\ Len(requests) = 2

(* ------------------------------------------------------------------ *)
(* C16                                                                *)
(* ------------------------------------------------------------------ *)
OwnClockReading ==
  /\ Len(clock_reads) >= Len(requests)
  /\ \A i \in 1..Len(requests) :
       /\ requests[i].timestamp = clock_reads[i]
       /\ requests[i].sign.msg[1] = clock_reads[i]

NonDecreasing(seq) ==
  \A i, j \in 1..Len(seq) : i < j => seq[i] <= seq[j]

\* C16 as claimed: every request carries the clock reading of its own
\* call, and no request's timestamp is earlier than the timestamp of a
\* request sent before it.
C16_OwnTimestampNeverEarlier ==
  /\ OwnClockReading
  /\ NonDecreasing([i \in 1..Len(requests) |-> requests[i].timestamp])

\* C16 as amended: every request carries, in its header and under its
\* signature, the reading of time.time() taken by its own call, never the
\* timestamp of another request; the timestamps are in order whenever the
\* clock readings are, and time.time() is the wall clock, which can be
\* set back between two calls.
C16_OwnTimestampFollowsTheClock ==
  /\ OwnClockReading
  /\ NonDecreasing(clock_reads) =>
       NonDecreasing([i \in 1..Len(requests) |-> requests[i].timestamp])

C16_Witness ==
  /\ Len(requests) = 2
  /\ clock_reads = <<1, 2>>
  /\ requests[1].timestamp = 1
  /\ requests[2].timestamp = 2

(* ------------------------------------------------------------------ *)
(* C17                                                                *)
(* ------------------------------------------------------------------ *)
\* C17: main() is in one call at a time and takes them in order: the
\* advisory call starts only out of the finished indicator fetch, the
\* close request only out of the advisory call, the open request only out
\* of the close request, the sleep only out of the last call of the cycle,
\* and the next cycle's fetch only after the sleep has returned; a cycle
\* makes each of these calls at most once.
C17_OneCallAtATimeInOrder ==
  [][ /\ pc' = "fetch" => pc \in {"fetch", "loop"}
      /\ pc' = "decide" => pc \in {"decide", "fetch"}
      /\ pc' = "close" => pc \in {"close", "decide"}
      /\ pc' = "open" => pc \in {"open", "close"}
      /\ pc' = "sleeping" => pc \in {"sleeping", "fetch", "decide", "open"}
      /\ pc' = "loop" => pc \in {"loop", "sleeping"}
      /\ cycle' # cycle => (pc = "loop" /\ (cycle > 0 => sleeps = <<300>>))
      /\ advisor_calls' <= 1
      /\ Len(calls') <= 2
      /\ Len(requests') <= Len(calls')
      /\ Len(sleeps') <= 1
    ]_vars

C17_Witness ==
  /\ pc = "fetch"
  /\ cycle = 2
  /\ prev # Unset
  /\ Len(prev.calls) = 2

(* ------------------------------------------------------------------ *)
(* C18                                                                *)
(* ------------------------------------------------------------------ *)
\* C18: for every request sent, what was signed is what is sent: the
\* signed timestamp is the ACCESS-TIMESTAMP header, the signed method and
\* path are the ones requested, and the signed body string is the body
\* string of the request.
C18_SignedWhatIsSent ==
  \A i \in 1..Len(requests) :
    /\ requests[i].sign.msg[1] = requests[i].timestamp
    /\ requests[i].sign.msg[2] = requests[i].method
    /\ requests[i].sign.msg[3] = requests[i].url
    /\ requests[i].sign.msg[4] = requests[i].data

====
